---- MODULE Spec2Model ----
(***************************************************************************)
(* Model of twitter_tester.ids_from_search: a generator that walks the     *)
(* pages of a search, yielding status ids, and moves the max_id cursor     *)
(* below each page it has exhausted.                                       *)
(*                                                                         *)
(* One walk is one generator object.  The consumer drives it: every        *)
(* request for the next id (`next(gen)`) runs the generator's code from    *)
(* the place it was suspended at to the next `yield`, `return` or raised   *)
(* exception.  The search engine is the environment: each call returns any *)
(* page of statuses, or raises.                                            *)
(***************************************************************************)
EXTENDS Integers, Sequences, FiniteSets, TLC

\* ---------------------------------------------------------------- bounds
\* Longest page the engine returns.
MaxPageLen == 3
\* Most statuses the engine returns over one walk.
MaxItems == 5
\* Largest limit a walk is started with (0 is "no limit").
MaxLimit == 4
\* Most statuses the engine returns to each of two walks run side by side.
TwoMaxItems == 3

\* Status ids the engine draws from: negative, zero and positive integers.
Ids == {-1, 0, 1, 2}
\* Failures the engine may raise.
Errors == {"TwythonError", "TwythonRateLimitError"}

\* ------------------------------------------------------------ python values
\* None, and a value that is not None.
None == <<>>
Some(v) == <<v>>

\* Python truth value of None or an int: None and 0 are false.
Truthy(x) == x # None /\ x[1] # 0

\* A status of a response; only its id is read (status.get('id')).
Status(v) == [id |-> v]

\* d[k] = v on a dict.
SetItem(d, k, v) == [x \in (DOMAIN d) \cup {k} |-> IF x = k THEN v ELSE d[x]]

\* --------------------------------------------------------------- the engine
\* Sequences over S of length 0..n.
SeqUpTo(S, n) == UNION {[1..k -> S] : k \in 0..n}

\* What engine.search may do when at most `room` more statuses are left:
\* return a response with a page of statuses, or raise.
OkResponse(page) == [ok |-> TRUE, statuses |-> page, err |-> ""]
Raised(e) == [ok |-> FALSE, statuses |-> <<>>, err |-> e]

Min2(a, b) == IF a < b THEN a ELSE b

SearchResults(room) ==
    {OkResponse(page) : page \in SeqUpTo({Status(v) : v \in Ids}, Min2(MaxPageLen, room))}
        \cup {Raised(e) : e \in Errors}

\* The parameter mappings a caller starts a walk with: the shapes of the three
\* walks of main (count is the one of a walk without limit).
InitialParams == [q |-> "query", result_type |-> "recent", count |-> 100]
CallerParams ==
    { InitialParams,
      SetItem(InitialParams, "max_id", 1),
      SetItem(SetItem(InitialParams, "max_id", 1), "since_id", -2) }

\* --------------------------------------------------------------- the state
VARIABLES
    limit,          \* the walk's limit argument
    caller_params,  \* the caller's own mapping, unpacked with ** into the call
    search_params,  \* the generator's search_params (a fresh dict)
    i,              \* ids yielded and counted so far
    current_min,    \* None or the tracked minimum of the current page
    response,       \* statuses of the response in hand
    idx,            \* position of the for loop in response (the status yielded last)
    pc,             \* "created" | "suspended" (at the yield) | how the body
                    \* ended: "returned" | "raised" | "closed"
    delivered,      \* what the consumer's last request gave it
    calls,          \* the engine's view: the parameters of every search call
    responses,      \* the engine's view: what it answered to every call
    yielded,        \* the consumer's view: the ids it was given, in order
    other,          \* a second generator the consumer holds: its frame and views
    main            \* the locals of main, when the walks are main's

vars == <<limit, caller_params, search_params, i, current_min, response, idx,
          pc, delivered, calls, responses, yielded, other, main>>

\* What a request of the consumer ends with.
Nothing == [kind |-> "none", id |-> 0, err |-> ""]
GaveId(v) == [kind |-> "id", id |-> v, err |-> ""]
StopIteration == [kind |-> "stop", id |-> 0, err |-> ""]
Propagated(e) == [kind |-> "error", id |-> 0, err |-> e]
Closed == [kind |-> "closed", id |-> 0, err |-> ""]

\* No second generator, no main.
Absent == <<>>

\* ids_from_search(engine, lim, **params): the generator object is made, none
\* of its body has run; search_params is a new dict with the items of params.
Created(lim, params) ==
    /\ limit = lim
    /\ caller_params = params
    /\ search_params = params
    /\ i = 0
    /\ current_min = None
    /\ response = <<>>
    /\ idx = 0
    /\ pc = "created"
    /\ delivered = Nothing
    /\ calls = <<>>
    /\ responses = <<>>
    /\ yielded = <<>>

\* One walk, of any caller.
Init ==
    /\ \E lim \in 0..MaxLimit, params \in CallerParams : Created(lim, params)
    /\ other = Absent
    /\ main = Absent

\* -------------------------------------------------------- pieces of the body
\* Statuses the engine has handed out in this walk.
RECURSIVE ItemsIn(_)
ItemsIn(rs) == IF rs = <<>> THEN 0 ELSE Len(Head(rs).statuses) + ItemsIn(Tail(rs))

Room == MaxItems - ItemsIn(responses)

\* Bug: while True.
LoopCondition_Always(statuses) == TRUE

\* while response.get('statuses', {}):
LoopCondition(statuses) == statuses # <<>>

\* Bug: current_min set to None once, before the while loop.
PageStartMin_Kept(cm) == cm

\* current_min = None, at the head of every pass of the while loop.
PageStartMin(cm) == None

\* Bug: the limit compared one item late.
LimitReached_Late(n, lim) == n = lim + 1

\* Bug: the limit compared with >=, which ends a walk without limit at once.
LimitReached_AtLeast(n, lim) == n >= lim

\* if i == limit: return
LimitReached(n, lim) == n = lim

\* if not current_min or status.get('id') < current_min: current_min = ...
TrackMin(cm, id) == IF ~Truthy(cm) \/ id < cm[1] THEN Some(id) ELSE cm

\* Bug: the cursor left on the page's minimum.
MoveCursor_NoDecrement(params, cm) == SetItem(params, "max_id", cm[1])

\* Bug: search_params = {'max_id': current_min - 1}.
MoveCursor_Fresh(params, cm) == [max_id |-> cm[1] - 1]

\* search_params['max_id'] = current_min - 1
MoveCursor(params, cm) == SetItem(params, "max_id", cm[1] - 1)

\* The for loop has another status to go to.
HasNextStatus(k, statuses) == k < Len(statuses)

\* Bug: the engine's failure caught and another raised in its place.
Propagate_Translated(e) == Propagated("RuntimeError")

\* What propagates out of the generator when engine.search raises e.
Propagate(e) == Propagated(e)

\* response = engine.search(**p) answered with r, then on to the while loop:
\* up to the first yield of the new page, the return, or the exception.
\* cm is current_min as the code before the call left it.
SearchAndGoOn(p, r, cm) ==
    /\ calls' = Append(calls, p)
    /\ responses' = Append(responses, r)
    /\ IF ~r.ok
       THEN /\ pc' = "raised"
            /\ delivered' = Propagate(r.err)
            /\ current_min' = cm
            /\ UNCHANGED <<response, idx, yielded>>
       ELSE /\ response' = r.statuses
            /\ IF ~LoopCondition(r.statuses)
               THEN /\ pc' = "returned"
                    /\ delivered' = StopIteration
                    /\ current_min' = cm
                    /\ UNCHANGED <<idx, yielded>>
               ELSE IF r.statuses # <<>>
               THEN /\ current_min' = PageStartMin(cm)
                    /\ idx' = 1
                    /\ yielded' = Append(yielded, r.statuses[1].id)
                    /\ delivered' = GaveId(r.statuses[1].id)
                    /\ pc' = "suspended"
               ELSE \* a for loop over no status, then None - 1: TypeError
                    /\ pc' = "raised"
                    /\ delivered' = Propagated("TypeError")
                    /\ current_min' = PageStartMin(cm)
                    /\ UNCHANGED <<idx, yielded>>

\* The body has ended: every later next(gen) raises StopIteration.
Finished == pc \in {"returned", "raised", "closed"}

\* ------------------------------------------------------------------ actions
\* First next(gen): lines 20-30.
Start ==
    /\ pc = "created"
    /\ \E r \in SearchResults(Room) : SearchAndGoOn(search_params, r, current_min)
    /\ i' = 0
    /\ UNCHANGED <<limit, caller_params, search_params, other, main>>

\* next(gen) on a generator suspended at the yield: lines 32-40 and round to 30.
Resume ==
    /\ pc = "suspended"
    /\ i' = i + 1
    /\ IF LimitReached(i + 1, limit)
       THEN /\ pc' = "returned"
            /\ delivered' = StopIteration
            /\ UNCHANGED <<search_params, current_min, response, idx,
                           calls, responses, yielded>>
       ELSE LET cm == TrackMin(current_min, response[idx].id) IN
            IF HasNextStatus(idx, response)
            THEN /\ current_min' = cm
                 /\ idx' = idx + 1
                 /\ yielded' = Append(yielded, response[idx + 1].id)
                 /\ delivered' = GaveId(response[idx + 1].id)
                 /\ UNCHANGED <<search_params, response, pc, calls, responses>>
            ELSE /\ search_params' = MoveCursor(search_params, cm)
                 /\ \E r \in SearchResults(Room) :
                        SearchAndGoOn(MoveCursor(search_params, cm), r, cm)
    /\ UNCHANGED <<limit, caller_params, other, main>>

\* next(gen) on a generator that has returned, raised or been closed.
NextWhenFinished ==
    /\ Finished
    /\ delivered' = StopIteration
    /\ UNCHANGED <<limit, caller_params, search_params, i, current_min, response,
                   idx, pc, calls, responses, yielded, other, main>>

\* Bug: a finally clause that fetches the page after the one in hand.
Close_Fetching ==
    /\ pc \in {"created", "suspended"}
    /\ pc' = "closed"
    /\ delivered' = Closed
    /\ \E r \in SearchResults(Room) :
          /\ calls' = Append(calls, search_params)
          /\ responses' = Append(responses, r)
    /\ UNCHANGED <<limit, caller_params, search_params, i, current_min, response,
                   idx, yielded, other, main>>

\* gen.close(), or the consumer dropping the generator: GeneratorExit is raised
\* at the yield (or nothing runs, when the body never started); the body has no
\* try/finally, so no code of it runs.
Close ==
    /\ pc \in {"created", "suspended"}
    /\ pc' = "closed"
    /\ delivered' = Closed
    /\ UNCHANGED <<limit, caller_params, search_params, i, current_min, response,
                   idx, calls, responses, yielded, other, main>>

Next == Start \/ Resume \/ NextWhenFinished \/ Close

Spec == Init /\ [][Next]_vars

\* A walk consumed to its end, as by list(ids_from_search(...)): the consumer
\* asks for the next id until the generator has ended, and never drops it.
ConsumedNext == Start \/ Resume \/ NextWhenFinished

\* The first walk of main: started with initial_params.
ConsumedInit == Init /\ caller_params = InitialParams

ConsumedSpec ==
    /\ ConsumedInit
    /\ [][ConsumedNext]_vars
    /\ WF_vars(Start)
    /\ WF_vars(Resume)

\* ------------------------------------------------------------ two walks
\* The generator in hand as an object of its own: its frame (the locals of
\* the body and where it is suspended) with what engine and consumer saw of it.
Frame ==
    [limit |-> limit, caller_params |-> caller_params,
     search_params |-> search_params, i |-> i, current_min |-> current_min,
     response |-> response, idx |-> idx, pc |-> pc, delivered |-> delivered,
     calls |-> calls, responses |-> responses, yielded |-> yielded]

\* A generator just made by ids_from_search(engine, lim, **params).
CreatedFrame(lim, params) ==
    [limit |-> lim, caller_params |-> params, search_params |-> params, i |-> 0,
     current_min |-> None, response |-> <<>>, idx |-> 0, pc |-> "created",
     delivered |-> Nothing, calls |-> <<>>, responses |-> <<>>, yielded |-> <<>>]

\* Bug: search_params taken as a dict and not as **kwargs, the caller passing
\* one dict to both walks.
Switch_SharedParams ==
    /\ other # Absent
    /\ other' = Frame
    /\ limit' = other.limit
    /\ caller_params' = other.caller_params
    /\ search_params' = search_params
    /\ i' = other.i
    /\ current_min' = other.current_min
    /\ response' = other.response
    /\ idx' = other.idx
    /\ pc' = other.pc
    /\ delivered' = other.delivered
    /\ calls' = other.calls
    /\ responses' = other.responses
    /\ yielded' = other.yielded
    /\ UNCHANGED main

\* Bug: the counter i kept in a module-level variable.
Switch_SharedCounter ==
    /\ other # Absent
    /\ other' = Frame
    /\ limit' = other.limit
    /\ caller_params' = other.caller_params
    /\ search_params' = other.search_params
    /\ i' = i
    /\ current_min' = other.current_min
    /\ response' = other.response
    /\ idx' = other.idx
    /\ pc' = other.pc
    /\ delivered' = other.delivered
    /\ calls' = other.calls
    /\ responses' = other.responses
    /\ yielded' = other.yielded
    /\ UNCHANGED main

\* The consumer turns to its other generator.  A generator keeps all of its
\* state in its own frame: limit, search_params (a dict of its own, made by
\* the ** of the call), i, current_min, response and the place it is at.
Switch ==
    /\ other # Absent
    /\ other' = Frame
    /\ limit' = other.limit
    /\ caller_params' = other.caller_params
    /\ search_params' = other.search_params
    /\ i' = other.i
    /\ current_min' = other.current_min
    /\ response' = other.response
    /\ idx' = other.idx
    /\ pc' = other.pc
    /\ delivered' = other.delivered
    /\ calls' = other.calls
    /\ responses' = other.responses
    /\ yielded' = other.yielded
    /\ UNCHANGED main

\* The pages a small engine returns: none, one status, two statuses in
\* ascending and two in descending order.
FewPages ==
    { <<>>, <<Status(2)>>, <<Status(1), Status(0)>>, <<Status(-1), Status(1)>> }

\* The search call of this step, if it made one, was answered by the small
\* engine: one of FewPages or a TwythonError, TwoMaxItems statuses in all.
FewResults ==
    \/ responses' = responses
    \/ LET r == responses'[Len(responses')] IN
         /\ r.ok => r.statuses \in FewPages
         /\ ~r.ok => r.err = "TwythonError"
         /\ ItemsIn(responses') <= TwoMaxItems

\* The parameter mappings of the two walks.
TwoParams == { InitialParams, SetItem(InitialParams, "max_id", 1) }

TwoInit ==
    /\ \E lim \in 0..MaxLimit, params \in TwoParams : Created(lim, params)
    /\ other \in {CreatedFrame(lim, params) : lim \in 0..MaxLimit, params \in TwoParams}
    /\ main = Absent

\* Two walks against a reentrant engine, the consumer going from one to the
\* other between any two requests.
TwoNext ==
    \/ Start /\ FewResults
    \/ Resume /\ FewResults
    \/ NextWhenFinished
    \/ Close
    \/ Switch

TwoSpec == TwoInit /\ [][TwoNext]_vars

\* -------------------------------------------------------------------- main
\* max(ids) and min(ids) of a non-empty list.
Max(ids) == CHOOSE m \in {ids[k] : k \in 1..Len(ids)} :
                \A k \in 1..Len(ids) : ids[k] <= m
Min(ids) == CHOOSE m \in {ids[k] : k \in 1..Len(ids)} :
                \A k \in 1..Len(ids) : m <= ids[k]

\* initial_params = {'q': query, 'result_type': 'recent',
\*                   'count': 100 if not limit else min(limit, 100)}
MainInitialParams(lim) ==
    [q |-> "query", result_type |-> "recent",
     count |-> IF lim = 0 THEN 100 ELSE Min2(lim, 100)]

\* Bug: the walk given main's dict itself (no **), so that main's dict is the
\* one the walk moves the cursor in.
DictAfterWalk_Aliased == search_params

\* The dict main passed with ** to the walk in hand, as main finds it after
\* the walk: the walk has its own copy, main's is as it was.
DictAfterWalk == caller_params

\* max_only_params = initial_params.copy(); max_only_params['max_id'] = max_id
MaxOnlyParams(initial, ids) == SetItem(initial, "max_id", Max(ids))

\* max_and_since_params = max_only_params.copy()
\* max_and_since_params['since_id'] = min_id - 1
MaxAndSinceParams(max_only, ids) == SetItem(max_only, "since_id", Min(ids) - 1)

\* ids_from_search(engine, lim, **params) called by a step: the generator in
\* hand is from now on a new one.
NewWalk(lim, params) ==
    /\ limit' = lim
    /\ caller_params' = params
    /\ search_params' = params
    /\ i' = 0
    /\ current_min' = None
    /\ response' = <<>>
    /\ idx' = 0
    /\ pc' = "created"
    /\ delivered' = Nothing
    /\ calls' = <<>>
    /\ responses' = <<>>
    /\ yielded' = <<>>

\* main at line 122, about to consume its first walk.  main.pc is the walk
\* main is consuming or how main ended; searches are the calls the engine got
\* from the walks that are over.
MainInit ==
    /\ \E lim \in 0..MaxLimit : Created(lim, MainInitialParams(lim))
    /\ other = Absent
    /\ main = [pc |-> "initial", walks |-> 1, searches |-> <<>>,
               initial_ids |-> <<>>, max_only_ids |-> <<>>,
               max_and_since_ids |-> <<>>,
               initial_params |-> MainInitialParams(limit),
               max_only_params |-> Absent, max_and_since_params |-> Absent]

\* list(...) of line 122 is done; lines 124-134.
AfterInitial ==
    /\ main # Absent
    /\ main.pc = "initial"
    /\ pc = "returned"
    /\ IF yielded = <<>>
       THEN /\ main' = [main EXCEPT !.pc = "no_results",
                                    !.searches = main.searches \o calls,
                                    !.initial_params = DictAfterWalk]
            /\ UNCHANGED <<limit, caller_params, search_params, i, current_min,
                           response, idx, pc, delivered, calls, responses, yielded>>
       ELSE /\ main' = [main EXCEPT !.pc = "max_only",
                                    !.walks = 2,
                                    !.searches = main.searches \o calls,
                                    !.initial_ids = yielded,
                                    !.initial_params = DictAfterWalk,
                                    !.max_only_params =
                                        MaxOnlyParams(DictAfterWalk, yielded)]
            /\ NewWalk(limit, MaxOnlyParams(DictAfterWalk, yielded))
    /\ UNCHANGED other

\* list(...) of line 134 is done; lines 137-141.
AfterMaxOnly ==
    /\ main # Absent
    /\ main.pc = "max_only"
    /\ pc = "returned"
    /\ main' = [main EXCEPT !.pc = "max_and_since",
                            !.walks = 3,
                            !.searches = main.searches \o calls,
                            !.max_only_ids = yielded,
                            !.max_only_params = DictAfterWalk,
                            !.max_and_since_params =
                                MaxAndSinceParams(DictAfterWalk, main.initial_ids)]
    /\ NewWalk(limit, MaxAndSinceParams(DictAfterWalk, main.initial_ids))
    /\ UNCHANGED other

\* list(...) of lines 139-141 is done; on to the table, lines 144-167.
AfterMaxAndSince ==
    /\ main # Absent
    /\ main.pc = "max_and_since"
    /\ pc = "returned"
    /\ main' = [main EXCEPT !.pc = "table",
                            !.searches = main.searches \o calls,
                            !.max_and_since_ids = yielded,
                            !.max_and_since_params = DictAfterWalk]
    /\ UNCHANGED <<limit, caller_params, search_params, i, current_min,
                   response, idx, pc, delivered, calls, responses, yielded, other>>

\* A failure of engine.search comes out of list(...) and out of main.
MainRaises ==
    /\ main # Absent
    /\ main.pc \in {"initial", "max_only", "max_and_since"}
    /\ pc = "raised"
    /\ main' = [main EXCEPT !.pc = "raised", !.searches = main.searches \o calls]
    /\ UNCHANGED <<limit, caller_params, search_params, i, current_min,
                   response, idx, pc, delivered, calls, responses, yielded, other>>

\* main: list() asks the walk in hand for its ids until it has ended, then
\* main goes on.
MainNext ==
    \/ Start /\ FewResults
    \/ Resume /\ FewResults
    \/ AfterInitial
    \/ AfterMaxOnly
    \/ AfterMaxAndSince
    \/ MainRaises

MainSpec == MainInit /\ [][MainNext]_vars

\* ------------------------------------------- an engine that honours max_id
\* The ids of a page are pairwise different.
Distinct(statuses) ==
    \A a, b \in 1..Len(statuses) : statuses[a].id = statuses[b].id => a = b

\* The search call of this step, if it made one, was answered as the search
\* API answers: with statuses of pairwise different ids, none above the
\* max_id of the call when the call carried one.
HonoursMaxId ==
    \/ responses' = responses
    \/ LET r == responses'[Len(responses')]
           p == calls'[Len(calls')]
       IN  r.ok =>
              /\ Distinct(r.statuses)
              /\ "max_id" \in DOMAIN p =>
                    \A k \in 1..Len(r.statuses) : r.statuses[k].id <= p.max_id

\* One walk against an engine that takes max_id as an inclusive upper bound.
HonourNext ==
    \/ Start /\ HonoursMaxId
    \/ Resume /\ HonoursMaxId
    \/ NextWhenFinished
    \/ Close

HonourSpec == Init /\ [][HonourNext]_vars

\* ------------------------------------------------------ what the claims read
\* The ids of a response's page, in response order.
PageIds(r) == [k \in 1..Len(r.statuses) |-> r.statuses[k].id]

\* The ids of the pages of rs, one page after the other.
RECURSIVE Concat(_)
Concat(rs) == IF rs = <<>> THEN <<>> ELSE PageIds(Head(rs)) \o Concat(Tail(rs))

\* Every id the engine has returned in this walk, in order.
Received == Concat(responses)

Prefix(s, n) == SubSeq(s, 1, n)
IsPrefix(s, t) == Len(s) <= Len(t) /\ s = Prefix(t, Len(s))

\* The smallest n such that responses 1..n hold at least k statuses (0 for k = 0).
PagesHolding(k) ==
    IF k = 0 THEN 0
    ELSE CHOOSE n \in 1..Len(responses) :
            /\ ItemsIn(Prefix(responses, n)) >= k
            /\ ItemsIn(Prefix(responses, n - 1)) < k

\* The body returned by itself: the walk was consumed to its end.
FullyConsumed == pc = "returned"

\* ---------------------------------------------------------------------- C1
\* C1: with limit > 0, at no moment of a walk have more than limit ids been
\* yielded, whatever pages the engine returns.
C1_AtMostLimit == limit > 0 => Len(yielded) <= limit

\* The limit cut a walk short: the engine had returned more than limit ids.
C1_Witness ==
    /\ limit > 0
    /\ Len(yielded) = limit
    /\ Len(Received) > limit
    /\ pc = "returned"

\* ---------------------------------------------------------------------- C2
\* C2: the ids yielded are always a prefix of the ids received, page after
\* page in response order; a walk consumed to its end has yielded all of them
\* when limit is 0 and the first min(limit, total) of them when limit > 0.
C2_YieldedIsPrefix ==
    /\ IsPrefix(yielded, Received)
    /\ FullyConsumed =>
          yielded = IF limit = 0 THEN Received
                    ELSE Prefix(Received, Min2(limit, Len(Received)))

\* A walk without limit over pages of 3 and 2 statuses and an empty one.
C2_Witness ==
    /\ FullyConsumed
    /\ limit = 0
    /\ Len(responses) = 3
    /\ Len(responses[1].statuses) = 3
    /\ Len(responses[2].statuses) = 2
    /\ Len(yielded) = 5

\* ---------------------------------------------------------------------- C3
\* C3: with limit > 0, when the limit-th id has been yielded the search calls
\* made are those of the pages that hold the first limit ids, and from then on
\* no search call is made and no id yielded: the next request ends the walk,
\* also when the limit-th id is the last of its page.
C3_LimitStops ==
    /\ [](limit > 0 /\ Len(yielded) = limit => Len(calls) = PagesHolding(limit))
    /\ [][limit > 0 /\ Len(yielded) = limit =>
              /\ calls' = calls
              /\ yielded' = yielded
              /\ pc' \in {"returned", "closed"}]_vars

\* The limit was reached on the last status of the second page.
C3_Witness ==
    /\ limit > 0
    /\ Len(yielded) = limit
    /\ Len(Received) = limit
    /\ Len(calls) = 2
    /\ pc = "returned"

\* ---------------------------------------------------------------------- C4
\* C4: a response without statuses is the last of its walk: the body returns
\* on it, nothing is yielded for it and no search call follows it; when it is
\* the first response nothing at all is yielded and one call is made.
C4_EmptyPageEnds ==
    \A n \in 1..Len(responses) :
        (responses[n].ok /\ responses[n].statuses = <<>>) =>
            /\ n = Len(responses)
            /\ Len(calls) = n
            /\ pc = "returned"
            /\ yielded = Prefix(Received, Len(yielded))
            /\ Len(yielded) <= ItemsIn(Prefix(responses, n - 1))
            /\ (n = 1 => yielded = <<>>)

\* The third response was the empty one, and the consumer asked again.
C4_Witness ==
    /\ Len(responses) = 3
    /\ responses[3].ok
    /\ responses[3].statuses = <<>>
    /\ limit = 0
    /\ delivered = StopIteration
    /\ pc = "returned"

\* A first response without statuses.
C4_WitnessFirst ==
    /\ Len(responses) = 1
    /\ responses[1].ok
    /\ responses[1].statuses = <<>>
    /\ pc = "returned"


\* ------------------------------------------------------------- C5 and C6
\* The least element of a non-empty sequence of integers.
MinOf(ids) == CHOOSE m \in {ids[k] : k \in 1..Len(ids)} :
                  \A k \in 1..Len(ids) : m <= ids[k]

Elements(ids) == {ids[k] : k \in 1..Len(ids)}

\* Call n follows a page that was exhausted without the limit being reached.
FollowsPage(n) == n \in 2..Len(calls)

\* C5: the max_id of a search call that follows an exhausted page is the
\* least id of that page minus 1, whatever the order of the page, whatever
\* integers its ids are and whatever ids earlier pages held.
C5_CursorBelowPageMin ==
    \A n \in 1..Len(calls) :
        FollowsPage(n) =>
            /\ "max_id" \in DOMAIN calls[n]
            /\ calls[n].max_id = MinOf(PageIds(responses[n - 1])) - 1

\* C5 on the pages that hold no id 0: there the tracked minimum is the least
\* id of the page.
C5_CursorBelowPageMinNonZero ==
    \A n \in 1..Len(calls) :
        (FollowsPage(n) /\ 0 \notin Elements(PageIds(responses[n - 1]))) =>
            /\ "max_id" \in DOMAIN calls[n]
            /\ calls[n].max_id = MinOf(PageIds(responses[n - 1])) - 1

\* C6 as stated: the max_id of a search call that follows an exhausted page is
\* the least id seen in the whole walk so far minus 1.  Read on the walks
\* whose ids are all non-zero, where the tracked minimum of a page is its
\* least id, so that a violation shows the page-wise reset and nothing else.
C6_CursorBelowWalkMin ==
    \A n \in 1..Len(calls) :
        (FollowsPage(n) /\ 0 \notin Elements(Received)) =>
            calls[n].max_id = MinOf(Concat(Prefix(responses, n - 1))) - 1

\* C6 amended: the max_id of a search call that follows an exhausted page is
\* an id of that very page minus 1, the least id of that page when the page
\* holds no id 0; ids of earlier pages do not enter it.
C6_CursorBelowLastPage ==
    \A n \in 1..Len(calls) :
        FollowsPage(n) =>
            /\ "max_id" \in DOMAIN calls[n]
            /\ calls[n].max_id + 1 \in Elements(PageIds(responses[n - 1]))
            /\ 0 \notin Elements(PageIds(responses[n - 1])) =>
                  calls[n].max_id = MinOf(PageIds(responses[n - 1])) - 1

\* A third call whose cursor is above the least id of the first page.
C6_Witness ==
    /\ Len(calls) = 3
    /\ 0 \notin Elements(Received)
    /\ MinOf(PageIds(responses[1])) < MinOf(PageIds(responses[2]))
    /\ calls[3].max_id = MinOf(PageIds(responses[2])) - 1
    /\ Len(responses[2].statuses) = 3
    /\ responses[2].statuses[2].id < responses[2].statuses[3].id
    /\ responses[2].statuses[2].id < responses[2].statuses[1].id

\* ---------------------------------------------------------------------- C7
\* A response that is a failure.
Failed(n) == ~responses[n].ok

\* C7: a search call that fails is the last call of its walk, the body ends by
\* raising and the consumer is given that very failure; the ids yielded are
\* those of all the pages received before it, and nothing is called or
\* yielded afterwards.
C7_FailurePropagates ==
    /\ [](\A n \in 1..Len(responses) :
            Failed(n) =>
               /\ n = Len(responses)
               /\ Len(calls) = n
               /\ pc = "raised"
               /\ yielded = Concat(Prefix(responses, n - 1))
               /\ delivered \in {Propagated(responses[n].err), StopIteration})
    /\ [][(pc # "raised" /\ pc' = "raised") =>
              /\ ~responses'[Len(responses')].ok
              /\ delivered' = Propagated(responses'[Len(responses')].err)]_vars
    /\ [][pc = "raised" =>
              /\ calls' = calls
              /\ yielded' = yielded
              /\ pc' = "raised"]_vars

\* The third call failed after two pages, and the consumer asked again.
C7_Witness ==
    /\ Len(responses) = 3
    /\ Failed(3)
    /\ Len(yielded) >= 3
    /\ pc = "raised"
    /\ delivered = StopIteration

\* ---------------------------------------------------------------------- C8
\* The value of parameter k as an option: None when the mapping has no k.
Get(d, k) == IF k \in DOMAIN d THEN Some(d[k]) ELSE None

\* The last call that was answered with a response, 0 if none was.
LastAnswered ==
    IF \E n \in 1..Len(responses) : responses[n].ok
    THEN CHOOSE n \in 1..Len(responses) :
            responses[n].ok /\ \A m \in (n + 1)..Len(responses) : ~responses[m].ok
    ELSE 0

\* C8 as stated: when a search call has failed, the walker's max_id is the one
\* of the last call that succeeded, or the caller's (or none) if no call did.
C8_CursorOfLastSuccess ==
    pc = "raised" =>
        Get(search_params, "max_id") =
            IF LastAnswered = 0 THEN Get(caller_params, "max_id")
            ELSE Get(calls[LastAnswered], "max_id")

\* C8 amended: when a search call has failed, the walker's parameters are
\* those the failed call carried: the caller's mapping when it is the first
\* call, and otherwise the mapping whose max_id was already moved below the
\* page received last (an id of that page minus 1), before the call was made.
C8_CursorOfFailedCall ==
    pc = "raised" =>
        /\ search_params = calls[Len(calls)]
        /\ Len(calls) = 1 => search_params = caller_params
        /\ Len(calls) > 1 =>
              /\ "max_id" \in DOMAIN search_params
              /\ search_params.max_id + 1
                    \in Elements(PageIds(responses[Len(calls) - 1]))

\* The second call failed with the cursor moved away from the first call's.
C8_Witness ==
    /\ pc = "raised"
    /\ Len(calls) = 2
    /\ "max_id" \in DOMAIN calls[1]
    /\ search_params.max_id # calls[1].max_id

\* ---------------------------------------------------------------------- C9
\* The mapping without its max_id.
WithoutCursor(params) == [k \in (DOMAIN params) \ {"max_id"} |-> params[k]]

\* C9: the first search call carries the caller's mapping as it is, every
\* call carries the caller's value of every parameter but max_id and no
\* parameter the caller did not give but max_id, and the caller's mapping is
\* never changed.
C9_OnlyCursorMoves ==
    /\ [](\A n \in 1..Len(calls) :
            /\ WithoutCursor(calls[n]) = WithoutCursor(caller_params)
            /\ n = 1 => calls[n] = caller_params)
    /\ [](WithoutCursor(search_params) = WithoutCursor(caller_params))
    /\ [][caller_params' = caller_params]_vars

\* A third call of a walk started with a since_id and a max_id, the cursor
\* moved away from the caller's max_id.
C9_Witness ==
    /\ Len(calls) = 3
    /\ "since_id" \in DOMAIN caller_params
    /\ calls[3].max_id # caller_params.max_id
    /\ calls[2].max_id # calls[3].max_id

\* --------------------------------------------------------------------- C10
\* The generator waits for the consumer: created or suspended at the yield.
Waiting == pc \in {"created", "suspended"}

\* C10: while the generator waits for the consumer, the search calls made are
\* those of the pages that hold the ids yielded so far (none before the first
\* request); a search call is made only by a request that finds no status left
\* in the page in hand, one call per request; dropping the generator makes no
\* call.
C10_Lazy ==
    /\ [](Waiting => Len(calls) = PagesHolding(Len(yielded)))
    /\ [][calls' # calls =>
              /\ pc = "created" \/ (pc = "suspended" /\ idx = Len(response))
              /\ Len(calls') = Len(calls) + 1]_vars
    /\ [][pc' = "closed" => calls' = calls /\ yielded' = yielded]_vars

\* The generator was dropped after the first id of a second page of several.
C10_Witness ==
    /\ pc = "closed"
    /\ delivered = Closed
    /\ Len(calls) = 2
    /\ Len(responses[2].statuses) > 1
    /\ Len(yielded) = Len(responses[1].statuses) + 1

\* The generator was dropped before any request.
C10_WitnessUnstarted ==
    /\ pc = "closed"
    /\ calls = <<>>
    /\ yielded = <<>>

\* --------------------------------------------------------------------- C11
\* No response so far was an empty page or a failure.
OnlyFullPages ==
    \A n \in 1..Len(responses) : responses[n].ok /\ responses[n].statuses # <<>>

\* The body has ended by itself.
Terminated == pc \in {"returned", "raised"}

\* C11: a walk consumed to its end terminates when the engine's supply of
\* statuses is finite (it comes to an empty page); with limit > 0 it makes at
\* most limit search calls and is over at the request after the limit-th id,
\* whatever the engine returns; with limit = 0 it is not over as long as every
\* response is a page with statuses.
C11_Terminates ==
    /\ <>Terminated
    /\ [](limit > 0 => Len(calls) <= limit /\ Len(yielded) <= limit)
    /\ [][limit > 0 /\ Len(yielded) = limit /\ ~Terminated => Terminated']_vars
    /\ [](limit = 0 /\ OnlyFullPages => ~Terminated)
    /\ [](limit = 0 /\ OnlyFullPages /\ Room > 0 => ENABLED (Start \/ Resume))

\* A walk with a limit, ended by the limit with every response a full page.
C11_Witness ==
    /\ limit > 1
    /\ OnlyFullPages
    /\ Len(calls) = limit
    /\ pc = "returned"

\* A walk without limit still going after all the statuses the engine had.
C11_WitnessNoLimit ==
    /\ limit = 0
    /\ OnlyFullPages
    /\ Room = 0
    /\ pc = "suspended"

\* --------------------------------------------------------------------- C12
\* The tracked minimum the body leaves a page with.
RECURSIVE TrackedFrom(_, _)
TrackedFrom(cm, ids) ==
    IF ids = <<>> THEN cm ELSE TrackedFrom(TrackMin(cm, Head(ids)), Tail(ids))

\* The parameters of the search calls of a walk run alone, started with params
\* and answered with rs.
RECURSIVE SoloCalls(_, _)
SoloCalls(params, rs) ==
    IF rs = <<>> THEN <<>>
    ELSE IF Len(rs) = 1 \/ Head(rs).statuses = <<>> THEN <<params>>
    ELSE <<params>> \o SoloCalls(
             MoveCursor(params, TrackedFrom(PageStartMin(None), PageIds(Head(rs)))),
             Tail(rs))

\* The ids a walk run alone has yielded when it has returned.
SoloYielded(lim, rs) ==
    IF lim = 0 THEN Concat(rs) ELSE Prefix(Concat(rs), Min2(lim, Len(Concat(rs))))

\* The generator with frame f is where a walk run alone with f's limit and
\* parameters and answered with f's responses would be.
AsAlone(f) ==
    /\ f.calls = SoloCalls(f.caller_params, f.responses)
    /\ Len(f.calls) = Len(f.responses)
    /\ IsPrefix(f.yielded, SoloYielded(f.limit, f.responses))
    /\ f.pc = "returned" => f.yielded = SoloYielded(f.limit, f.responses)
    /\ f.pc = "raised" => f.yielded = Concat(f.responses)
    /\ f.pc = "suspended" =>
          /\ f.i = Len(f.yielded) - 1
          /\ f.search_params = f.calls[Len(f.calls)]
          /\ Len(f.yielded) > ItemsIn(Prefix(f.responses, Len(f.responses) - 1))
    /\ f.pc = "created" => f.search_params = f.caller_params /\ f.calls = <<>>

\* C12: of two walks whose requests are interleaved in any way, each issues
\* the call parameters and yields the ids that it would alone against the
\* same responses; a request to one leaves the other as it was, the other
\* changing only by the consumer turning to it, which changes neither.
C12_NoInterference ==
    /\ [](AsAlone(Frame) /\ AsAlone(other))
    /\ [][other' # other => (other' = Frame /\ Frame' = other)]_vars

\* Both walks have moved their cursors, to different places, and both are
\* in the middle of a page.
C12_Witness ==
    /\ Len(calls) = 2
    /\ Len(other.calls) = 2
    /\ calls[2].max_id # other.calls[2].max_id
    /\ pc = "suspended"
    /\ other.pc = "suspended"
    /\ Len(response) = 2
    /\ idx = 1

\* --------------------------------------------------------------------- C13
\* The two walks were started with the same limit and the same parameters.
SameInputs == limit = other.limit /\ caller_params = other.caller_params

Comparable(s, t) == IsPrefix(s, t) \/ IsPrefix(t, s)

\* C13: two runs with the same limit and the same initial parameters issue
\* the same call parameters as long as their earlier responses were the same;
\* with the same responses they yield the same ids in the same order, and
\* neither goes on to a call where the other, with these responses, ended.
C13_Deterministic ==
    SameInputs =>
        /\ \A n \in 1..Min2(Len(calls), Len(other.calls)) :
              Prefix(responses, n - 1) = Prefix(other.responses, n - 1) =>
                  calls[n] = other.calls[n]
        /\ responses = other.responses =>
              /\ Comparable(yielded, other.yielded)
              /\ calls = other.calls
              /\ (pc = "returned" /\ other.pc = "returned") => yielded = other.yielded
              /\ (pc = "returned" /\ other.pc = "suspended") =>
                     Len(other.yielded) <= Len(yielded)
        /\ (pc \in {"returned", "raised"} /\ IsPrefix(responses, other.responses)) =>
              responses = other.responses

\* Two runs over the same two pages and an empty one, both at their end.
C13_Witness ==
    /\ SameInputs
    /\ Len(responses) = 3
    /\ responses = other.responses
    /\ pc = "returned"
    /\ other.pc = "returned"
    /\ Len(yielded) = 3
    /\ yielded = other.yielded

\* --------------------------------------------------------------------- C14
\* The max_id of every call that carries one is below the max_id of the call
\* before it, if that carried one.
CursorDecreases ==
    \A n \in 2..Len(calls) :
        ("max_id" \in DOMAIN calls[n - 1] /\ "max_id" \in DOMAIN calls[n]) =>
            calls[n].max_id < calls[n - 1].max_id

\* No id was yielded twice.
NoIdTwice ==
    \A a, b \in 1..Len(yielded) : yielded[a] = yielded[b] => a = b

\* C14: against an engine that takes max_id as an inclusive upper bound, the
\* ids being any integers, the max_id of successive calls of a walk strictly
\* decreases and no id is yielded twice.
C14_NoRefetch == CursorDecreases /\ NoIdTwice

\* C14, the part that holds: the cursor strictly decreases, and no id is
\* yielded twice on the walks that received no id 0.
C14_NoRefetchNonZero ==
    /\ CursorDecreases
    /\ 0 \notin Elements(Received) => NoIdTwice

\* A walk of three calls without id 0, the cursor moved twice.
C14_WitnessNonZero ==
    /\ Len(calls) = 3
    /\ 0 \notin Elements(Received)
    /\ Len(yielded) >= 2
    /\ "max_id" \in DOMAIN calls[1]

\* --------------------------------------------------------------------- C15
\* The parameters main builds for the walk in hand from the ids of its first.
FirstWalkParams == MainInitialParams(limit)
SecondWalkParams == SetItem(FirstWalkParams, "max_id", Max(main.initial_ids))
ThirdWalkParams == SetItem(SecondWalkParams, "since_id", Min(main.initial_ids) - 1)

MainEnded == main.pc \in {"no_results", "raised", "table"}

\* C15: main runs its walks one after the other, a walk being made only when
\* the one before has returned with all its ids; a first walk without ids is
\* the only walk, and its one call the only search; the first call of the
\* second walk carries q, result_type and count of the first with max_id =
\* max(ids of walk 1) and no since_id, the first call of the third the same
\* with since_id = min(ids of walk 1) - 1, wherever the walks before moved
\* their cursors.
C15_MainWalks ==
    /\ [](main.pc = "no_results" =>
             /\ main.initial_ids = <<>>
             /\ main.walks = 1
             /\ Len(main.searches) = 1)
    /\ [](main.walks >= 2 => main.initial_ids # <<>>)
    /\ [](calls # <<>> =>
             /\ main.walks = 1 => calls[1] = FirstWalkParams
             /\ main.walks = 2 =>
                   /\ calls[1] = SecondWalkParams
                   /\ "since_id" \notin DOMAIN calls[1]
             /\ main.walks = 3 => calls[1] = ThirdWalkParams)
    /\ [][main'.walks # main.walks =>
              /\ main'.walks = main.walks + 1
              /\ main'.walks <= 3
              /\ pc = "returned"
              /\ yielded = SoloYielded(limit, responses)
              /\ pc' = "created"
              /\ limit' = limit]_vars
    /\ [][~MainEnded]_vars

\* The third walk has made its first call after two walks that both moved
\* their cursors.
C15_Witness ==
    /\ main.walks = 3
    /\ Len(calls) = 1
    /\ Len(main.searches) >= 5
    /\ Len(main.initial_ids) >= 2
    /\ Max(main.initial_ids) # Min(main.initial_ids)
    /\ main.searches[2].max_id # calls[1].max_id

\* The first walk had no ids.
C15_WitnessNoResults == main.pc = "no_results" /\ calls # <<>>

====
